---- MODULE Spec2Model ----
(***************************************************************************)
(* Model of the backtest core of backtrader-only:                          *)
(*   src/backtest/strategy.py      TpSlHoldStrategy                        *)
(*   src/backtest/run_backtest.py  run_backtest (cerebro set-up and run)   *)
(*   src/backtest/config.py        BacktestConfig                          *)
(*                                                                         *)
(* The strategy runs inside backtrader's Cerebro loop, started by          *)
(* cerebro.run() (run_backtest.py:160).  For every bar of the feed the     *)
(* loop does, in this order:                                               *)
(*   1. broker.next(): orders submitted on the previous bar are checked    *)
(*      against cash (status Accepted or Margin) and a market order is     *)
(*      executed at the open of the new bar (strategy.py:9);               *)
(*   2. the queued order notifications are handed to notify_order, all of  *)
(*      them, and only then the queued trades to notify_trade;             *)
(*   3. strategy.next() is called;                                         *)
(*   4. the observers run: EquityObserver appends broker.getvalue().       *)
(*                                                                         *)
(* Further specifications, each over its own variables:                    *)
(*   MetricsSpec  the summary of run_backtest (drawdown, win rate);        *)
(*   LoadSpec     src/backtest/datafeed.py, load_a_share_daily;            *)
(*   RunSpec      the entry points: run_backtest.main, the poller          *)
(*                (src/jobs/poll_and_backtest.py) and the card callback    *)
(*                (src/server/feishu_callback.py);                         *)
(*   PollSpec     src/jobs/poll_and_backtest.py, instances of main         *)
(*                working on one task table;                               *)
(*   CacheSpec    src/server/feishu_bot.py, _get_tenant_access_token;      *)
(*   ServerSpec   src/server/feishu_callback.py, the two handlers.         *)
(*                                                                         *)
(* Units: prices are integers in tenths of the currency unit, money is in  *)
(* thousandths of the currency unit, fractions (take_profit, stop_loss)    *)
(* are in 1/10000.  All arithmetic is exact.                               *)
(***************************************************************************)
EXTENDS Integers, Sequences, FiniteSets, TLC

\* ------------------------------------------------------------------ bounds

\* Longest bar series that is simulated.
MaxBars == 5

\* Largest max_hold_days that is tried (the code accepts 1..200).
MaxHold == 3

\* --------------------------------------------------------------- constants

\* BacktestConfig.stake: shares bought by every entry.
Stake == 100

\* BacktestConfig.commission = 0.0003, in 1/10000.
CommissionE4 == 3

\* Scale of the fractions take_profit and stop_loss (1.0 of strategy.py:90).
One == 10000

\* None of entry_price (prices are positive).
NoPrice == 0

\* ------------------------------------------------------------------ inputs

\* A daily bar: low <= open, close <= high.
Bar(o, h, l, c) == [open |-> o, high |-> h, low |-> l, close |-> c]

\* The bars a series is drawn from (tenths): a quiet bar, a bar that touches
\* both thresholds of an entry at 100.0, a rising bar and a falling bar.
Bars ==
    { Bar(1000, 1010, 970, 1000),
      Bar(1000, 1035, 949, 960),
      Bar(1010, 1040, 1000, 1030),
      Bar(960, 970, 940, 950) }

\* Parameter sets accepted by _validate_params: take_profit > 0, stop_loss < 0,
\* 1 <= max_hold_days <= 200, cash > 0.  Cash 100000.0 is the default; with
\* cash 10000.0 an entry of 100 shares at 100.0 cannot be paid.
Params ==
    [ take_profit : {300, 100},
      stop_loss : {-500},
      max_hold_days : 1..MaxHold,
      cash : {100000000, 10000000} ]

\* ------------------------------------------------------------------- state

VARIABLES
    p,              \* the parameters of the run (strategy params and cfg.cash)
    pc,             \* position of the Cerebro loop within the current bar
    nbar,           \* number of bars delivered so far (index of the current bar)
    bar,            \* the current bar
    cash,           \* broker cash
    position,       \* broker position: [size, price]
    submitted,      \* orders submitted to the broker, not yet processed
    orderspending,  \* order notifications queued for notify_order
    tradespending,  \* trades queued for notify_trade
    trade,          \* the trade object of the open round trip
    order,          \* self.order
    entry_price,    \* self.entry_price
    hold_bars,      \* self.hold_bars
    exit_reason,    \* self.exit_reason
    trades,         \* self.trades, the ledger
    equity_curve,   \* equity_curve of run_backtest, filled by EquityObserver
    entries,        \* history: the filled entries
    exits,          \* history: the filled exits
    evals,          \* history: exit-rule evaluations for the open position
    rejected,       \* history: number of buys refused for lack of cash
    breached,       \* history: a bar touched the stop or the take-profit price
    m_pc,           \* metrics: "input" before, "done" after the summary
    m_equity,       \* metrics: the equity curve handed to the summary
    m_trades,       \* metrics: the ledger handed to the summary
    metrics,        \* metrics: the BacktestMetrics computed
    l_pc,           \* loader: position in load_a_share_daily
    l_in,           \* loader: its arguments
    l_calls,        \* loader: the provider calls made, with their responses
    last_err,       \* loader: the provider whose exception was kept, or "None"
    l_out,          \* loader: what the call returned or raised
    r_pc,           \* run: position in the entry point
    r_entry,        \* run: "cli", "poller" or "callback"
    r_in,           \* run: the parameters given
    r_core,         \* run: "none", or how run_backtest ended
    r_simulated,    \* run: cerebro.run() was reached
    r_report,       \* run: "none", or "written" once report.json is on disk
    r_marks,        \* run: the status updates written to the task record
    r_dispatched,   \* run: the workflow was dispatched
    r_sent,         \* run: the texts handed to send_feishu_text
    r_failed,       \* run: an exception was raised in the run
    r_exit,         \* run: "running", or how the entry point ended
    table,          \* poller: the status of every record of the task table
    poll,           \* poller: the state of every instance of main
    ran_by,         \* poller: the instances that ran run_backtest on a record
    limit,          \* poller: FEISHU_TASK_LIMIT
    _TOKEN_CACHE,   \* bot: the cached tenant access token and its expire_at
    now,            \* bot: time.time(), in seconds
    issued,         \* bot: the number of tokens the server has issued
    last_call,      \* bot: what the last _get_tenant_access_token call did
    s_pc,           \* server: "request" before, "done" after the handler
    s_req,          \* server: the request, its handler and the environment
    s_dispatches,   \* server: the calls of dispatch_backtest_workflow
    s_cards,        \* server: the calls of send_interactive_card
    s_resp          \* server: the answer of the handler

vars ==
    << p, pc, nbar, bar, cash, position, submitted, orderspending,
       tradespending, trade, order, entry_price, hold_bars, exit_reason,
       trades, equity_curve, entries, exits, evals, rejected, breached,
       m_pc, m_equity, m_trades, metrics,
       l_pc, l_in, l_calls, last_err, l_out,
       r_pc, r_entry, r_in, r_core, r_simulated, r_report, r_marks,
       r_dispatched, r_sent, r_failed, r_exit,
       table, poll, ran_by, limit,
       _TOKEN_CACHE, now, issued, last_call,
       s_pc, s_req, s_dispatches, s_cards, s_resp >>

simVars ==
    << p, pc, nbar, bar, cash, position, submitted, orderspending,
       tradespending, trade, order, entry_price, hold_bars, exit_reason,
       trades, equity_curve, entries, exits, evals, rejected, breached >>
metricsVars == << m_pc, m_equity, m_trades, metrics >>
loadVars == << l_pc, l_in, l_calls, last_err, l_out >>
runVars ==
    << r_pc, r_entry, r_in, r_core, r_simulated, r_report, r_marks,
       r_dispatched, r_sent, r_failed, r_exit >>

pollVars == << table, poll, ran_by, limit >>
cacheVars == << _TOKEN_CACHE, now, issued, last_call >>
serverVars == << s_pc, s_req, s_dispatches, s_cards, s_resp >>
serviceVars == << pollVars, cacheVars, serverVars >>

brokerVars == << cash, position, submitted, trade >>
stratVars == << order, entry_price, hold_bars, exit_reason, trades >>
histVars == << entries, exits, evals, rejected, breached >>

\* ---------------------------------------------------------- pure operators

\* Notional of size shares at a price, in money units.
Value(size, price) == size * price * 100

\* Commission of one fill: price * size * commission rate.
Commission(size, price) == (Value(size, price) * CommissionE4) \div One

\* Mutant of stop_price: the sign of stop_loss is lost.
stop_price_above(entry) == entry * (One - p.stop_loss)

\* entry_price * (1.0 + stop_loss), scaled by One.
stop_price(entry) == entry * (One + p.stop_loss)

\* entry_price * (1.0 + take_profit), scaled by One.
take_price(entry) == entry * (One + p.take_profit)

\* Mutant of decide: the max-hold test is strict.
decide_late(entry, hold, b) ==
    IF b.low * One <= stop_price(entry) THEN "stop_loss"
    ELSE IF b.high * One >= take_price(entry) THEN "take_profit"
    ELSE IF hold > p.max_hold_days THEN "max_hold_days"
    ELSE "hold"

\* The exit decision of next() for an open position, after the increment
\* of hold_bars: stop first, then take-profit, then max hold.
decide(entry, hold, b) ==
    IF b.low * One <= stop_price(entry) THEN "stop_loss"
    ELSE IF b.high * One >= take_price(entry) THEN "take_profit"
    ELSE IF hold >= p.max_hold_days THEN "max_hold_days"
    ELSE "hold"

\* ------------------------------------------------------------------- Init

NoTrade == [size |-> 0, price |-> NoPrice, commission |-> 0]

\* The part of the program that is not running in a specification.
MetricsOff ==
    /\ m_pc = "off" /\ m_equity = << >> /\ m_trades = << >> /\ metrics = << >>

NoOutcome == [status |-> "none", used |-> "None", df |-> "None", error |-> "None"]
NoInputs == [datasource |-> "auto", token |-> FALSE, symbol_ok |-> TRUE, dates_ok |-> TRUE]
LoadOff ==
    /\ l_pc = "off" /\ l_in = NoInputs /\ l_calls = << >>
    /\ last_err = "None" /\ l_out = NoOutcome

RunFields ==
    /\ r_core = "none" /\ r_simulated = FALSE /\ r_report = "none"
    /\ r_marks = << >> /\ r_dispatched = FALSE /\ r_sent = << >>
    /\ r_failed = FALSE /\ r_exit = "running"
RunOff ==
    /\ r_pc = "off" /\ r_entry = "cli"
    /\ r_in = [take_profit |-> 300, stop_loss |-> -500, max_hold_days |-> 1,
               cash |-> 100000000, dates_ok |-> TRUE]
    /\ RunFields

PollOff ==
    /\ table = << >> /\ poll = << >> /\ ran_by = << >> /\ limit = 1
\* _TokenCache(): token "" (written 0) and expire_at 0.0.
_TokenCache == [token |-> 0, expire_at |-> 0]
NoCall == [made |-> FALSE]
CacheOff ==
    /\ _TOKEN_CACHE = _TokenCache /\ now = 0 /\ issued = 0
    /\ last_call = NoCall
NoResponse == [status |-> 0, ok |-> FALSE]
ServerOff ==
    /\ s_pc = "off" /\ s_req = [handler |-> "none"] /\ s_dispatches = 0
    /\ s_cards = 0 /\ s_resp = NoResponse
ServiceOff == PollOff /\ CacheOff /\ ServerOff

\* The state of a simulation before its first bar, but for p and pc.
SimFields ==
    /\ nbar = 0
    /\ bar = Bar(0, 0, 0, 0)
    /\ cash = p.cash
    /\ position = [size |-> 0, price |-> NoPrice]
    /\ submitted = << >>
    /\ orderspending = << >>
    /\ tradespending = << >>
    /\ trade = NoTrade
    /\ order = "None"
    /\ entry_price = NoPrice
    /\ hold_bars = 0
    /\ exit_reason = "None"
    /\ trades = << >>
    /\ equity_curve = << >>
    /\ entries = << >>
    /\ exits = << >>
    /\ evals = 0
    /\ rejected = 0
    /\ breached = FALSE

\* No simulation is running.
SimOff ==
    /\ p = [take_profit |-> 300, stop_loss |-> -500, max_hold_days |-> 1,
            cash |-> 100000000]
    /\ pc = "off"
    /\ SimFields

Init ==
    /\ p \in Params
    /\ pc = "advance"
    /\ SimFields
    /\ MetricsOff
    /\ LoadOff
    /\ RunOff
    /\ ServiceOff


\* ------------------------------------------------------ broker (backtrader)

\* A notification of an order's status, as notify_order receives it.
Notif(status, o, price) ==
    [status |-> status, isbuy |-> o.isbuy, size |-> o.size, price |-> price]

\* Mutant of ExecPrice: the order is filled at the close of the fill bar.
ExecPrice_close(o, b) == b.close

\* Price at which the broker executes a market order: the open of the bar
\* that follows the bar on which the order was created.
ExecPrice(o, b) == b.open

\* Cash left after paying for a buy of o at a price (negative: not enough).
CashAfterBuy(o, price) ==
    cash - Value(o.size, price) - Commission(o.size, price)

\* Average price of a position or trade that grows by size at a price.
AvgPrice(oldsize, oldprice, size, price) ==
    IF oldsize + size = 0 THEN NoPrice
    ELSE (oldsize * oldprice + size * price) \div (oldsize + size)

\* The broker refuses the buy o: at submission (checked with the close of the
\* bar on which it was created) or at execution (checked with the open).
BuyRefused(o) ==
    /\ orderspending' =
          IF CashAfterBuy(o, o.created) < 0
          THEN Append(orderspending, Notif("Margin", o, NoPrice))
          ELSE orderspending \o
                 << Notif("Accepted", o, NoPrice), Notif("Margin", o, NoPrice) >>
    /\ rejected' = rejected + 1
    /\ UNCHANGED << cash, position, trade, tradespending, entries, exits, evals,
                    breached >>

\* The broker executes the buy o at the open of the current bar; the trade
\* of the round trip is opened (or grows).
BuyExecuted(o) ==
    LET price == ExecPrice(o, bar)
        comm == Commission(o.size, price)
        grown == [size |-> trade.size + o.size,
                  price |-> AvgPrice(trade.size, trade.price, o.size, price),
                  commission |-> trade.commission + comm]
    IN  /\ cash' = CashAfterBuy(o, price)
        /\ position' =
              [size |-> position.size + o.size,
               price |-> AvgPrice(position.size, position.price, o.size, price)]
        /\ trade' = grown
        /\ tradespending' =
              IF trade.size = 0
              THEN Append(tradespending,
                          [isclosed |-> FALSE, pnl |-> 0, pnlcomm |-> 0 - comm,
                           size |-> grown.size, price |-> grown.price,
                           value |-> Value(grown.size, grown.price),
                           commission |-> comm])
              ELSE tradespending
        /\ orderspending' = orderspending \o
              << Notif("Accepted", o, NoPrice), Notif("Completed", o, price) >>
        /\ entries' = Append(entries,
              [decided |-> o.bar, filled |-> nbar, price |-> price,
               open |-> bar.open, size |-> o.size, held |-> position.size,
               hold_bars |-> hold_bars, ledger |-> Len(trades)])
        /\ evals' = 0
        /\ UNCHANGED << exits, rejected, breached >>

\* The broker executes the sell o at the open of the current bar; a sell of
\* the whole trade closes it: pnl = size * (exit - entry), commission is the
\* sum of the entry's and the exit's, and the closed trade has size 0.
SellExecuted(o) ==
    LET price == ExecPrice(o, bar)
        comm == Commission(o.size, price)
        pnl == Value(o.size, price) - Value(o.size, trade.price)
        left == trade.size - o.size
        closed == trade.size # 0 /\ left = 0
    IN  /\ cash' = cash + Value(o.size, price) - comm
        /\ position' =
              [size |-> position.size - o.size,
               price |-> IF position.size - o.size = 0 THEN NoPrice
                         ELSE position.price]
        /\ trade' =
              IF closed THEN NoTrade
              ELSE [trade EXCEPT !.size = left, !.commission = @ + comm]
        /\ tradespending' =
              IF closed
              THEN Append(tradespending,
                          [isclosed |-> TRUE, pnl |-> pnl,
                           pnlcomm |-> pnl - (trade.commission + comm),
                           size |-> left, price |-> trade.price,
                           value |-> Value(left, trade.price),
                           commission |-> trade.commission + comm])
              ELSE tradespending
        /\ orderspending' = orderspending \o
              << Notif("Accepted", o, NoPrice), Notif("Completed", o, price) >>
        /\ exits' = Append(exits,
              [reason |-> o.reason, decided |-> o.bar, filled |-> nbar,
               price |-> price, trigger |-> o.trigger, both |-> o.both,
               entry |-> trade.price, size |-> o.size, held |-> position.size,
               hold_bars |-> hold_bars])
        /\ UNCHANGED << entries, evals, rejected, breached >>

\* cerebro._brokernotify at the start of a bar: the broker processes the order
\* submitted on the previous bar and queues its notifications and trades.
BrokerNotify ==
    /\ pc = "broker"
    /\ pc' = "notify"
    /\ IF submitted = << >>
       THEN UNCHANGED << cash, position, trade, submitted, orderspending,
                         tradespending, histVars >>
       ELSE LET o == Head(submitted)
            IN  /\ submitted' = Tail(submitted)
                /\ IF ~o.isbuy THEN SellExecuted(o)
                   ELSE IF \/ CashAfterBuy(o, o.created) < 0
                           \/ CashAfterBuy(o, ExecPrice(o, bar)) < 0
                        THEN BuyRefused(o)
                        ELSE BuyExecuted(o)
    /\ UNCHANGED << equity_curve, p, nbar, bar, stratVars >>

\* ---------------------------------------------------------- Cerebro loop

\* The feed delivers the next bar of the series.
Advance ==
    /\ pc = "advance"
    /\ nbar < MaxBars
    /\ \E b \in Bars : bar' = b
    /\ nbar' = nbar + 1
    /\ pc' = "broker"
    /\ UNCHANGED << equity_curve, p, brokerVars, orderspending, tradespending, stratVars,
                    histVars >>

\* The series is exhausted (load_a_share_daily returns no empty series).
Finish ==
    /\ pc = "advance"
    /\ nbar >= 1
    /\ pc' = "done"
    /\ UNCHANGED << equity_curve, p, nbar, bar, brokerVars, orderspending, tradespending,
                    stratVars, histVars >>

\* --------------------------------------------------------------- strategy

\* Mutant of _reset_position_state: hold_bars is not reset.
_reset_keeps_hold_bars ==
    [entry_price |-> NoPrice, hold_bars |-> hold_bars, exit_reason |-> "None"]

\* TpSlHoldStrategy._reset_position_state: the fields it assigns.
_reset_position_state ==
    [entry_price |-> NoPrice, hold_bars |-> 0, exit_reason |-> "None"]

\* Mutant of entry_hold_bars: the count starts at 1.
entry_hold_bars_one == 0 + 1

\* hold_bars of a position whose buy order has just completed.
entry_hold_bars == 0

\* Mutant of executed_price: the price of the fill is not taken over.
executed_price_unset(o) == NoPrice

\* float(order.executed.price) of a completed order's notification.
executed_price(o) == o.price

\* TpSlHoldStrategy.notify_order, called with the next queued notification.
notify_order ==
    /\ pc = "notify"
    /\ orderspending # << >>
    /\ LET o == Head(orderspending)
       IN  /\ orderspending' = Tail(orderspending)
           /\ IF o.status \in {"Submitted", "Accepted"}
              THEN UNCHANGED << order, entry_price, hold_bars, exit_reason >>
              ELSE /\ order' = "None"
                   /\ IF o.status = "Completed" /\ o.isbuy
                      THEN /\ entry_price' = executed_price(o)
                           /\ hold_bars' = entry_hold_bars
                           /\ UNCHANGED exit_reason
                      ELSE IF o.status = "Completed"
                      THEN /\ entry_price' = _reset_position_state.entry_price
                           /\ hold_bars' = _reset_position_state.hold_bars
                           /\ exit_reason' = _reset_position_state.exit_reason
                      ELSE UNCHANGED << entry_price, hold_bars, exit_reason >>
    /\ UNCHANGED << equity_curve, p, pc, nbar, bar, brokerVars, tradespending, trades,
                    histVars >>

\* Mutant of record: the test of trade.isclosed is missing.
record_any(t) ==
    Append(trades,
           [dt |-> nbar, pnl |-> t.pnl, pnlcomm |-> t.pnlcomm,
            size |-> t.size, price |-> t.price, value |-> t.value,
            commission |-> t.commission,
            exit_reason |-> IF exit_reason = "None" THEN "unknown"
                            ELSE exit_reason])

\* The ledger after notify_trade(t): only a closed trade is appended, with
\* self.exit_reason or "unknown" as its reason.
record(t) ==
    IF ~t.isclosed THEN trades
    ELSE Append(trades,
           [dt |-> nbar, pnl |-> t.pnl, pnlcomm |-> t.pnlcomm,
            size |-> t.size, price |-> t.price, value |-> t.value,
            commission |-> t.commission,
            exit_reason |-> IF exit_reason = "None" THEN "unknown"
                            ELSE exit_reason])

\* TpSlHoldStrategy.notify_trade, called once all order notifications of the
\* bar have been delivered.
notify_trade ==
    /\ pc = "notify"
    /\ orderspending = << >>
    /\ tradespending # << >>
    /\ LET t == Head(tradespending)
       IN  /\ tradespending' = Tail(tradespending)
           /\ trades' = record(t)
    /\ UNCHANGED << equity_curve, p, pc, nbar, bar, brokerVars, orderspending, order,
                    entry_price, hold_bars, exit_reason, histVars >>

\* self.buy / self.sell: a market order is handed to the broker, which queues
\* its Submitted notification.  The strategy does not keep the order.
Submit(o) ==
    /\ submitted' = Append(submitted, o)
    /\ orderspending' = Append(orderspending, Notif("Submitted", o, NoPrice))

\* Mutant of has_position: the position is never seen.
has_position_never == FALSE

\* self.position is truthy: the broker holds shares.
has_position == position.size # 0

\* A bar touches the stop price, the take-profit price, of the price at
\* which the broker filled the entry (history, not read by the strategy).
TouchesStop(b) == b.low * One <= position.price * (One + p.stop_loss)
TouchesTake(b) == b.high * One >= position.price * (One + p.take_profit)

\* TpSlHoldStrategy.next, called once the notifications have been delivered.
next ==
    /\ pc = "notify"
    /\ orderspending = << >>
    /\ tradespending = << >>
    /\ pc' = "observe"
    /\ IF order # "None"
       THEN UNCHANGED << submitted, orderspending, entry_price, hold_bars,
                         exit_reason, evals, breached >>
       ELSE IF ~has_position
       THEN /\ Submit([isbuy |-> TRUE, size |-> Stake, created |-> bar.close,
                       bar |-> nbar, reason |-> "None", trigger |-> 0,
                       both |-> FALSE])
            /\ UNCHANGED << entry_price, hold_bars, exit_reason, evals,
                            breached >>
       ELSE LET hold == hold_bars + 1
                entry == IF entry_price = NoPrice THEN bar.close ELSE entry_price
                d == decide(entry, hold, bar)
            IN  /\ hold_bars' = hold
                /\ entry_price' = entry
                /\ evals' = evals + 1
                /\ breached' = (breached \/ TouchesStop(bar) \/ TouchesTake(bar))
                /\ IF d = "hold"
                   THEN UNCHANGED << submitted, orderspending, exit_reason >>
                   ELSE /\ exit_reason' = d
                        /\ Submit([isbuy |-> FALSE, size |-> position.size,
                                   created |-> bar.close, bar |-> nbar,
                                   reason |-> d,
                                   trigger |-> CASE d = "stop_loss" -> stop_price(entry)
                                                 [] d = "take_profit" -> take_price(entry)
                                                 [] OTHER -> bar.close * One,
                                   both |-> TouchesStop(bar) /\ TouchesTake(bar)])
    /\ UNCHANGED << equity_curve, p, nbar, bar, cash, position, trade, tradespending, order,
                    trades, entries, exits, rejected >>

\* --------------------------------------------------------------- observer



\* broker.getvalue(): cash plus the position at the close of the current bar.
getvalue == cash + Value(position.size, bar.close)

\* Mutant of observed: a sample is taken only while a position is open.
observed_in_position(curve) ==
    IF position.size = 0 THEN curve ELSE Append(curve, getvalue)

\* equity_curve after EquityObserver.next: one sample is appended.
observed(curve) == Append(curve, getvalue)

\* EquityObserver.next, called after strategy.next() on every bar.
EquityObserver_next ==
    /\ pc = "observe"
    /\ pc' = "advance"
    /\ equity_curve' = observed(equity_curve)
    /\ UNCHANGED << p, nbar, bar, brokerVars, orderspending, tradespending,
                    stratVars, histVars >>

\* ---------------------------------------------------------- specification

Next ==
    \/ Advance /\ UNCHANGED << metricsVars, loadVars, runVars, serviceVars >>
    \/ Finish /\ UNCHANGED << metricsVars, loadVars, runVars, serviceVars >>
    \/ BrokerNotify /\ UNCHANGED << metricsVars, loadVars, runVars, serviceVars >>
    \/ notify_order /\ UNCHANGED << metricsVars, loadVars, runVars, serviceVars >>
    \/ notify_trade /\ UNCHANGED << metricsVars, loadVars, runVars, serviceVars >>
    \/ next /\ UNCHANGED << metricsVars, loadVars, runVars, serviceVars >>
    \/ EquityObserver_next /\ UNCHANGED << metricsVars, loadVars, runVars, serviceVars >>

Spec == Init /\ [][Next]_vars

\* ---------------------------------------------------------------- metrics

\* Longest equity curve and longest ledger handed to the summary.
MaxCurve == 3
MaxLedger == 3

\* Portfolio values of a curve (positive: cash is positive and no buy is
\* executed that cash does not cover) and net results of a trade.
EquityValues == {1, 2, 3}
PnlValues == {-1, 0, 1}

\* Sequences over S of length at most n.
SeqUpTo(S, n) == UNION { [1..k -> S] : k \in 0..n }

\* A quotient a / b as Python computes it, kept exact; a denominator 0
\* stands for ZeroDivisionError.
Frac(a, b) == [num |-> a, den |-> b]
Less(x, y) == x.num * y.den < y.num * x.den

\* The loop of _calc_max_drawdown from sample i on, with the running peak
\* and the smallest drawdown so far.
RECURSIVE drawdown_loop(_, _, _, _)
drawdown_loop(equity, i, peak, max_dd) ==
    IF i > Len(equity) THEN max_dd
    ELSE LET v == equity[i]
             pk == IF v > peak THEN v ELSE peak
             dd == Frac(v - pk, pk)
         IN  drawdown_loop(equity, i + 1, pk,
                           IF Less(dd, max_dd) THEN dd ELSE max_dd)

\* Mutant of _calc_max_drawdown: the peak stays the first sample.
RECURSIVE drawdown_first_peak(_, _, _)
drawdown_first_peak(equity, i, max_dd) ==
    IF i > Len(equity) THEN max_dd
    ELSE LET dd == Frac(equity[i] - equity[1], equity[1])
         IN  drawdown_first_peak(equity, i + 1,
                                 IF Less(dd, max_dd) THEN dd ELSE max_dd)
_calc_max_drawdown_first_peak(equity) ==
    IF equity = << >> THEN Frac(0, 1)
    ELSE drawdown_first_peak(equity, 1, Frac(0, 1))

\* _calc_max_drawdown(equity).
_calc_max_drawdown(equity) ==
    IF equity = << >> THEN Frac(0, 1)
    ELSE drawdown_loop(equity, 1, equity[1], Frac(0, 1))

\* sum(1 for t in trades if float(t.get("pnlcomm", 0.0)) > 0), from trade i on.
RECURSIVE n_win(_, _)
n_win(ledger, i) ==
    IF i > Len(ledger) THEN 0
    ELSE (IF ledger[i].pnlcomm > 0 THEN 1 ELSE 0) + n_win(ledger, i + 1)

\* Mutant of win_rate: a trade with net result 0 counts as a win.
RECURSIVE n_win_or_zero(_, _)
n_win_or_zero(ledger, i) ==
    IF i > Len(ledger) THEN 0
    ELSE (IF ledger[i].pnlcomm >= 0 THEN 1 ELSE 0) + n_win_or_zero(ledger, i + 1)
win_rate_or_zero(ledger) ==
    IF Len(ledger) # 0 THEN Frac(n_win_or_zero(ledger, 1), Len(ledger))
    ELSE Frac(0, 1)

\* win_rate = (n_win / n_trades) if n_trades else 0.0.
win_rate(ledger) ==
    IF Len(ledger) # 0 THEN Frac(n_win(ledger, 1), Len(ledger))
    ELSE Frac(0, 1)

\* The inputs of a summary: any curve and any ledger within the bounds.
MetricsInit ==
    /\ SimOff
    /\ m_pc = "input"
    /\ m_equity \in SeqUpTo(EquityValues, MaxCurve)
    /\ m_trades \in SeqUpTo([pnlcomm : PnlValues], MaxLedger)
    /\ metrics = << >>
    /\ LoadOff
    /\ RunOff
    /\ ServiceOff

\* run_backtest, lines 167-180: the metrics of the ledger and of the curve.
summarize ==
    /\ m_pc = "input"
    /\ m_pc' = "done"
    /\ metrics' = [trades |-> Len(m_trades),
                   win_rate |-> win_rate(m_trades),
                   max_drawdown |-> _calc_max_drawdown(m_equity)]
    /\ UNCHANGED << m_equity, m_trades, simVars, loadVars, runVars, serviceVars >>

MetricsNext == summarize

MetricsSpec == MetricsInit /\ [][MetricsNext]_vars

\* ---------------------------------------------------------------- loader

DataSources == {"auto", "tushare", "akshare", "other"}

\* What a provider's API answers: rows, rows without the OHLCV columns, an
\* empty frame, None, or an exception.
Responses == {"rows", "badrows", "empty", "None", "error"}

\* _load_tushare_daily / _load_akshare_daily on a response: "raise", None,
\* or the converted frame ("df" is a frame with at least one row).
_load_daily(resp) ==
    CASE resp = "error" -> "raise"
      [] resp \in {"None", "empty"} -> "None"
      [] resp = "badrows" -> "raise"
      [] resp = "rows" -> "df"

\* df is not None and not df.empty
usable(df) == df # "None" /\ df # "empty_df"

\* Mutant of returned: the bar is always labelled tushare.
returned_tushare(df, provider) ==
    [status |-> "returned", used |-> "tushare", df |-> df, error |-> "None"]

\* return AShareDailyBar(df=df, datasource_used=provider)
returned(df, provider) ==
    [status |-> "returned", used |-> provider, df |-> df, error |-> "None"]

raised(error) ==
    [status |-> "raised", used |-> "None", df |-> "None", error |-> error]

wants_tushare(datasource) == datasource \in {"auto", "tushare"}

\* Mutant of wants_akshare: akshare is the fallback of every datasource.
wants_akshare_always(datasource) == TRUE

wants_akshare(datasource) == datasource \in {"auto", "akshare"}

LoadInit ==
    /\ SimOff
    /\ MetricsOff
    /\ RunOff
    /\ ServiceOff
    /\ l_pc = "start"
    /\ l_in \in [datasource : DataSources, token : BOOLEAN,
                 symbol_ok : BOOLEAN, dates_ok : BOOLEAN]
    /\ l_calls = << >>
    /\ last_err = "None"
    /\ l_out = NoOutcome

\* load_a_share_daily, lines 117-124: the checks of the arguments.
load_validate ==
    /\ l_pc = "start"
    /\ IF ~l_in.symbol_ok \/ ~l_in.dates_ok
          \/ l_in.datasource \notin {"auto", "tushare", "akshare"}
       THEN l_pc' = "done" /\ l_out' = raised("ValueError")
       ELSE l_pc' = "tushare" /\ l_out' = l_out
    /\ UNCHANGED << l_in, l_calls, last_err, simVars, metricsVars, runVars, serviceVars >>

\* One provider's try block: the call, the test of its frame, the except.
try_provider(provider, after) ==
    \E resp \in Responses :
        LET df == _load_daily(resp) IN
        /\ l_calls' = Append(l_calls, [provider |-> provider, resp |-> resp])
        /\ IF df = "raise"
           THEN l_pc' = after /\ last_err' = provider /\ l_out' = l_out
           ELSE IF usable(df)
           THEN l_pc' = "done" /\ last_err' = last_err
                /\ l_out' = returned(df, provider)
           ELSE l_pc' = after /\ last_err' = last_err /\ l_out' = l_out

\* load_a_share_daily, lines 126-137.
load_tushare ==
    /\ l_pc = "tushare"
    /\ IF wants_tushare(l_in.datasource)
       THEN IF ~l_in.token
            THEN /\ IF l_in.datasource = "tushare"
                    THEN l_pc' = "done" /\ l_out' = raised("ValueError")
                    ELSE l_pc' = "akshare" /\ l_out' = l_out
                 /\ UNCHANGED << l_calls, last_err >>
            ELSE try_provider("tushare", "akshare")
       ELSE l_pc' = "akshare" /\ UNCHANGED << l_calls, last_err, l_out >>
    /\ UNCHANGED << l_in, simVars, metricsVars, runVars, serviceVars >>

\* load_a_share_daily, lines 139-145.
load_akshare ==
    /\ l_pc = "akshare"
    /\ IF wants_akshare(l_in.datasource)
       THEN try_provider("akshare", "fail")
       ELSE l_pc' = "fail" /\ UNCHANGED << l_calls, last_err, l_out >>
    /\ UNCHANGED << l_in, simVars, metricsVars, runVars, serviceVars >>

\* load_a_share_daily, lines 147-149: nothing was returned.
load_fail ==
    /\ l_pc = "fail"
    /\ l_pc' = "done"
    /\ l_out' = raised(IF last_err # "None" THEN "RuntimeError: last_err"
                       ELSE "RuntimeError: empty")
    /\ UNCHANGED << l_in, l_calls, last_err, simVars, metricsVars, runVars, serviceVars >>

LoadNext ==
    \/ load_validate
    \/ load_tushare
    \/ load_akshare
    \/ load_fail

LoadSpec == LoadInit /\ [][LoadNext]_vars

\* ---------------------------------------------------------------- entry points

EntryPoints == {"cli", "poller", "callback"}

\* Parameter sets, the out-of-range ones included; dates_ok says whether
\* the two dates parse and start_date < end_date.
RunInputs ==
    [take_profit : {-300, 0, 300}, stop_loss : {-500, 0},
     max_hold_days : {0, 1, 200, 201}, cash : {0, 100000000},
     dates_ok : BOOLEAN]

\* _validate_params / _validate_inputs: TRUE when nothing is raised.
_validate_params(in) ==
    /\ ~(in.take_profit <= 0)
    /\ ~(in.stop_loss >= 0)
    /\ 1 <= in.max_hold_days /\ in.max_hold_days <= 200
    /\ ~(in.cash <= 0)
    /\ in.dates_ok

\* Mutant of after_run: the report step follows run_backtest however it ended.
after_run_always(entry, ok) ==
    IF entry = "cli" THEN "report" ELSE "mark_done"

\* The statement after the call of run_backtest: the next one of the try
\* block when it returned, the except block when it raised.
after_run(entry, ok) ==
    IF ~ok THEN "except"
    ELSE IF entry = "cli" THEN "report" ELSE "mark_done"

RunInit ==
    /\ SimOff
    /\ MetricsOff
    /\ LoadOff
    /\ ServiceOff
    /\ r_pc = "start"
    /\ r_entry \in EntryPoints
    /\ r_in \in RunInputs
    /\ RunFields

\* run_backtest.main, line 197: the validation, outside the try block.
main_validate ==
    /\ r_pc = "start" /\ r_entry = "cli"
    /\ IF _validate_params(r_in)
       THEN r_pc' = "run" /\ UNCHANGED << r_failed, r_exit >>
       ELSE r_pc' = "done" /\ r_failed' = TRUE /\ r_exit' = "error"
    /\ UNCHANGED << r_entry, r_in, r_core, r_simulated, r_report, r_marks,
                    r_dispatched, r_sent >>
    /\ UNCHANGED << simVars, metricsVars, loadVars, serviceVars >>

\* poll_and_backtest.main, lines 157-184: the record is claimed and its
\* fields are parsed; no range of a parameter is checked.
poller_claim ==
    /\ r_pc = "start" /\ r_entry = "poller"
    /\ \E updated \in BOOLEAN, parsed \in BOOLEAN :
          /\ r_marks' = IF updated THEN Append(r_marks, "running") ELSE r_marks
          /\ r_pc' = IF updated /\ parsed THEN "run" ELSE "except"
    /\ UNCHANGED << r_entry, r_in, r_core, r_simulated, r_report,
                    r_dispatched, r_sent, r_failed, r_exit >>
    /\ UNCHANGED << simVars, metricsVars, loadVars, serviceVars >>

\* run_backtest: the loader (which checks the dates), the simulation, the
\* metrics (total_return divides by start_cash).
run_backtest ==
    /\ r_pc = "run"
    /\ \E loaded \in BOOLEAN, ran \in BOOLEAN :
          LET simulated == r_in.dates_ok /\ loaded
              ok == simulated /\ ran /\ r_in.cash # 0
          IN  /\ r_simulated' = simulated
              /\ r_core' = IF ok THEN "returned" ELSE "raised"
              /\ r_pc' = after_run(r_entry, ok)
    /\ UNCHANGED << r_entry, r_in, r_report, r_marks, r_dispatched, r_sent,
                    r_failed, r_exit >>
    /\ UNCHANGED << simVars, metricsVars, loadVars, serviceVars >>

\* run_backtest.main, line 215: report.json is written.
cli_write_report ==
    /\ r_pc = "report"
    /\ \E written \in BOOLEAN :
          /\ r_report' = IF written THEN "written" ELSE r_report
          /\ r_pc' = IF written THEN "notify" ELSE "except"
    /\ UNCHANGED << r_entry, r_in, r_core, r_simulated, r_marks,
                    r_dispatched, r_sent, r_failed, r_exit >>
    /\ UNCHANGED << simVars, metricsVars, loadVars, serviceVars >>

\* poll_and_backtest.main, line 191: the record is marked completed.
poller_mark_done ==
    /\ r_pc = "mark_done"
    /\ \E updated \in BOOLEAN :
          /\ r_marks' = IF updated THEN Append(r_marks, "completed") ELSE r_marks
          /\ r_pc' = IF updated THEN "notify" ELSE "except"
    /\ UNCHANGED << r_entry, r_in, r_core, r_simulated, r_report,
                    r_dispatched, r_sent, r_failed, r_exit >>
    /\ UNCHANGED << simVars, metricsVars, loadVars, serviceVars >>

\* send_feishu_text(webhook, summary), the last statement of both try
\* blocks; the request may raise.
notify_summary ==
    /\ r_pc = "notify"
    /\ r_sent' = Append(r_sent, "summary")
    /\ \E delivered \in BOOLEAN :
          IF delivered THEN r_pc' = "done" /\ r_exit' = "ok"
          ELSE r_pc' = "except" /\ r_exit' = r_exit
    /\ UNCHANGED << r_entry, r_in, r_core, r_simulated, r_report, r_marks,
                    r_dispatched, r_failed >>
    /\ UNCHANGED << simVars, metricsVars, loadVars, serviceVars >>

\* run_backtest.main, lines 220-223: the failure text is sent and the
\* exception is raised again.
cli_except ==
    /\ r_pc = "except" /\ r_entry = "cli"
    /\ r_failed' = TRUE
    /\ r_sent' = Append(r_sent, "failure")
    /\ r_exit' = "error"
    /\ r_pc' = "done"
    /\ UNCHANGED << r_entry, r_in, r_core, r_simulated, r_report, r_marks,
                    r_dispatched >>
    /\ UNCHANGED << simVars, metricsVars, loadVars, serviceVars >>

\* poll_and_backtest.main, lines 194-197: the record is marked failed, then
\* the failure text is sent; either request may raise, out of main.
poller_except ==
    /\ r_pc = "except" /\ r_entry = "poller"
    /\ r_failed' = TRUE
    /\ r_pc' = "done"
    /\ \E updated \in BOOLEAN, delivered \in BOOLEAN :
          IF updated
          THEN /\ r_marks' = Append(r_marks, "failed")
               /\ r_sent' = Append(r_sent, "failure")
               /\ r_exit' = IF delivered THEN "ok" ELSE "error"
          ELSE /\ r_exit' = "error"
               /\ UNCHANGED << r_marks, r_sent >>
    /\ UNCHANGED << r_entry, r_in, r_core, r_simulated, r_report,
                    r_dispatched >>
    /\ UNCHANGED << simVars, metricsVars, loadVars, serviceVars >>

\* feishu_card_callback, lines 128-136: validation, then the dispatch; every
\* exception becomes an answer with ok False.
feishu_card_callback ==
    /\ r_pc = "start" /\ r_entry = "callback"
    /\ r_pc' = "done"
    /\ r_exit' = "ok"
    /\ \E accepted \in BOOLEAN :
          LET dispatched == _validate_params(r_in) /\ accepted
          IN  r_dispatched' = dispatched /\ r_failed' = ~dispatched
    /\ UNCHANGED << r_entry, r_in, r_core, r_simulated, r_report, r_marks,
                    r_sent >>
    /\ UNCHANGED << simVars, metricsVars, loadVars, serviceVars >>

RunNext ==
    \/ main_validate
    \/ poller_claim
    \/ run_backtest
    \/ cli_write_report
    \/ poller_mark_done
    \/ notify_summary
    \/ cli_except
    \/ poller_except
    \/ feishu_card_callback

RunSpec == RunInit /\ [][RunNext]_vars

\* ---------------------------------------------------------------- task table

\* Records of the task table and instances of the poller running at once.
NumRecords == 2
Records == 1..NumRecords
Pollers == {"a", "b"}

\* The records of 1..n whose status is pending, in the order of the table.
RECURSIVE pending_upto(_)
pending_upto(n) ==
    IF n = 0 THEN << >>
    ELSE IF table[n] = "pending" THEN Append(pending_upto(n - 1), n)
    ELSE pending_upto(n - 1)

\* _list_pending_records(token, cfg, limit): at most page_size records that
\* pass the filter on the status.
_list_pending_records ==
    LET items == pending_upto(NumRecords)
    IN  IF Len(items) <= limit THEN items ELSE SubSeq(items, 1, limit)

PollInit ==
    /\ SimOff
    /\ MetricsOff
    /\ LoadOff
    /\ RunOff
    /\ CacheOff
    /\ ServerOff
    /\ table \in [Records -> {"pending", "completed"}]
    /\ poll = [i \in Pollers |->
                 [pc |-> "start", fetched |-> << >>, idx |-> 0,
                  claimed |-> {}, exit |-> "running"]]
    /\ ran_by = [r \in Records |-> {}]
    /\ limit \in 1..NumRecords

\* The record instance i is working on.
record_id(i) == poll[i].fetched[poll[i].idx]

\* The for loop of main goes on to the next fetched record, or main returns.
next_record(i) ==
    IF poll[i].idx < Len(poll[i].fetched)
    THEN [poll EXCEPT ![i].idx = @ + 1, ![i].pc = "claim"]
    ELSE [poll EXCEPT ![i].pc = "done", ![i].exit = "returned"]

\* An exception leaves main.
main_raises(i) == [poll EXCEPT ![i].pc = "done", ![i].exit = "raised"]

\* main, lines 136-151: the token, then the pending records are listed.
list_pending(i) ==
    /\ poll[i].pc = "start"
    /\ \E listed \in BOOLEAN :
          IF ~listed THEN poll' = main_raises(i)
          ELSE LET records == _list_pending_records
               IN  IF records = << >>
                   THEN poll' = [poll EXCEPT ![i].pc = "done",
                                             ![i].exit = "returned"]
                   ELSE poll' = [poll EXCEPT ![i].pc = "claim",
                                             ![i].fetched = records,
                                             ![i].idx = 1]
    /\ UNCHANGED << table, ran_by, limit >>
    /\ UNCHANGED << simVars, metricsVars, loadVars, runVars, cacheVars, serverVars >>

\* main, lines 157-184: the record is set to running, whatever its status
\* is by now, and its fields are parsed.
claim_record(i) ==
    /\ poll[i].pc = "claim"
    /\ \E updated \in BOOLEAN, parsed \in BOOLEAN :
          /\ table' = IF updated THEN [table EXCEPT ![record_id(i)] = "running"]
                      ELSE table
          /\ poll' = [poll EXCEPT
                        ![i].pc = IF updated /\ parsed THEN "run" ELSE "except",
                        ![i].claimed = IF updated THEN @ \cup {record_id(i)}
                                       ELSE @]
    /\ UNCHANGED << ran_by, limit >>
    /\ UNCHANGED << simVars, metricsVars, loadVars, runVars, cacheVars, serverVars >>

\* main, lines 186-188: run_backtest on the record.
backtest_record(i) ==
    /\ poll[i].pc = "run"
    /\ ran_by' = [ran_by EXCEPT ![record_id(i)] = @ \cup {i}]
    /\ \E ok \in BOOLEAN :
          poll' = [poll EXCEPT ![i].pc = IF ok THEN "mark" ELSE "except"]
    /\ UNCHANGED << table, limit >>
    /\ UNCHANGED << simVars, metricsVars, loadVars, runVars, cacheVars, serverVars >>

\* main, lines 190-191: the record is set to completed.
mark_completed(i) ==
    /\ poll[i].pc = "mark"
    /\ \E updated \in BOOLEAN :
          /\ table' = IF updated THEN [table EXCEPT ![record_id(i)] = "completed"]
                      ELSE table
          /\ poll' = [poll EXCEPT ![i].pc = IF updated THEN "notify" ELSE "except"]
    /\ UNCHANGED << ran_by, limit >>
    /\ UNCHANGED << simVars, metricsVars, loadVars, runVars, cacheVars, serverVars >>

\* main, line 193: the summary is sent; the request may raise.
send_summary(i) ==
    /\ poll[i].pc = "notify"
    /\ \E delivered \in BOOLEAN :
          poll' = IF delivered THEN next_record(i)
                  ELSE [poll EXCEPT ![i].pc = "except"]
    /\ UNCHANGED << table, ran_by, limit >>
    /\ UNCHANGED << simVars, metricsVars, loadVars, runVars, cacheVars, serverVars >>

\* main, lines 194-197: the record is set to failed and the failure text is
\* sent; an exception of either request leaves main.
handle_failure(i) ==
    /\ poll[i].pc = "except"
    /\ \E updated \in BOOLEAN, delivered \in BOOLEAN :
          /\ table' = IF updated THEN [table EXCEPT ![record_id(i)] = "failed"]
                      ELSE table
          /\ poll' = IF updated /\ delivered THEN next_record(i)
                     ELSE main_raises(i)
    /\ UNCHANGED << ran_by, limit >>
    /\ UNCHANGED << simVars, metricsVars, loadVars, runVars, cacheVars, serverVars >>

PollNext ==
    \E i \in Pollers :
        \/ list_pending(i)
        \/ claim_record(i)
        \/ backtest_record(i)
        \/ mark_completed(i)
        \/ send_summary(i)
        \/ handle_failure(i)

PollSpec == PollInit /\ [][PollNext]_vars

\* ---------------------------------------------------------------- token cache

\* The clock runs from 0 to MaxTime in steps of Tick seconds; the server
\* issues at most MaxTokens tokens.
MaxTime == 240
MaxTokens == 3
Tick == 30

\* The lifetimes the server gives a token, and the one assumed when the
\* answer has no "expire".
Expires == {90, 120}
DefaultExpire == 3600

\* Answers to the token request: a token with or without "expire", an HTTP
\* error, an answer with code != 0.
TokenResponses == {"ok", "ok_no_expire", "http_error", "code_error"}

\* Mutant of cache_valid: a token with exactly 60 seconds left is used.
cache_valid_at_60(cache, t) == cache.token # 0 /\ cache.expire_at - t >= 60

\* _TOKEN_CACHE.token and _TOKEN_CACHE.expire_at - now > 60
cache_valid(cache, t) == cache.token # 0 /\ cache.expire_at - t > 60

CacheInit ==
    /\ SimOff
    /\ MetricsOff
    /\ LoadOff
    /\ RunOff
    /\ PollOff
    /\ ServerOff
    /\ _TOKEN_CACHE = _TokenCache
    /\ now \in {0, Tick}
    /\ issued = 0
    /\ last_call = NoCall

\* Time passes between two calls.
time_passes ==
    /\ now + Tick <= MaxTime
    /\ now' = now + Tick
    /\ UNCHANGED << _TOKEN_CACHE, issued, last_call >>
    /\ UNCHANGED << simVars, metricsVars, loadVars, runVars, pollVars, serverVars >>

\* One call of _get_tenant_access_token(), with or without the credentials
\* in the environment.
_get_tenant_access_token ==
    /\ issued < MaxTokens
    /\ \E creds \in BOOLEAN, resp \in TokenResponses, expire \in Expires :
          LET call == [made |-> TRUE, at |-> now, creds |-> creds,
                       before |-> _TOKEN_CACHE, resp |-> resp,
                       expire |-> IF resp = "ok" THEN expire ELSE DefaultExpire]
          IN  IF ~creds
              THEN /\ last_call' = [call EXCEPT !.resp = "none", !.expire = 0]
                                      @@ [requested |-> FALSE, raised |-> TRUE,
                                          result |-> 0]
                   /\ UNCHANGED << _TOKEN_CACHE, issued >>
              ELSE IF cache_valid(_TOKEN_CACHE, now)
              THEN /\ last_call' = [call EXCEPT !.resp = "none", !.expire = 0]
                                      @@ [requested |-> FALSE, raised |-> FALSE,
                                          result |-> _TOKEN_CACHE.token]
                   /\ UNCHANGED << _TOKEN_CACHE, issued >>
              ELSE IF resp \in {"http_error", "code_error"}
              THEN /\ last_call' = [call EXCEPT !.expire = 0]
                                      @@ [requested |-> TRUE, raised |-> TRUE,
                                          result |-> 0]
                   /\ UNCHANGED << _TOKEN_CACHE, issued >>
              ELSE /\ issued' = issued + 1
                   /\ _TOKEN_CACHE' = [token |-> issued + 1,
                                       expire_at |-> now + call.expire]
                   /\ last_call' = call @@ [requested |-> TRUE, raised |-> FALSE,
                                            result |-> issued + 1]
    /\ UNCHANGED now
    /\ UNCHANGED << simVars, metricsVars, loadVars, runVars, pollVars, serverVars >>

CacheNext ==
    \/ time_passes
    \/ _get_tenant_access_token

CacheSpec == CacheInit /\ [][CacheNext]_vars

\* ---------------------------------------------------------------- server

\* A string is the sequence of its characters: the digits as themselves and
\* "-" as Dash, which sorts before every digit as it does in Python.
Dash == 0 - 1

\* a < b for two strings, as Python compares them.
RECURSIVE StrLess(_, _)
StrLess(a, b) ==
    IF b = << >> THEN FALSE
    ELSE IF a = << >> THEN TRUE
    ELSE IF Head(a) # Head(b) THEN Head(a) < Head(b)
    ELSE StrLess(Tail(a), Tail(b))

\* The number written by a string of digits.
RECURSIVE Num(_)
Num(digits) ==
    IF digits = << >> THEN 0
    ELSE 10 * Num(SubSeq(digits, 1, Len(digits) - 1)) + digits[Len(digits)]

\* datetime.strptime(value, "%Y-%m-%d"): << >> when it raises ValueError,
\* else << year, month, day >>.  %Y takes four digits, %m and %d one or two.
strptime(value) ==
    LET dashes == { i \in DOMAIN value : value[i] = Dash }
    IN  IF Cardinality(dashes) # 2 \/ 5 \notin dashes THEN << >>
        ELSE LET j == CHOOSE i \in dashes : i # 5
                 mm == SubSeq(value, 6, j - 1)
                 dd == SubSeq(value, j + 1, Len(value))
             IN  IF Len(mm) \notin {1, 2} \/ Len(dd) \notin {1, 2}
                    \/ Num(mm) \notin 1..12 \/ Num(dd) \notin 1..31
                 THEN << >>
                 ELSE << Num(SubSeq(value, 1, 4)), Num(mm), Num(dd) >>

\* The symbols and the dates a form may carry.
SymbolTexts == { << 6, 0, 0, 5, 1, 9 >>, << 6, 0, 0 >>, << >> }
DateTexts ==
    { << 2, 0, 2, 4, Dash, 0, 9, Dash, 3, 0 >>,
      << 2, 0, 2, 4, Dash, 9, Dash, 3, 0 >>,
      << 2, 0, 2, 4, Dash, 1, 0, Dash, 0, 1 >>,
      << 2, 0, 2, 4, Dash, 1, 3, Dash, 0, 1 >>,
      << >> }

\* The bodies posted to /feishu/card-callback.
CallbackRequests ==
    [handler : {"card-callback"}, json : BOOLEAN,
     symbol : SymbolTexts, start_date : DateTexts, end_date : DateTexts,
     take_profit : {0, 300}, stop_loss : {-500, 0},
     max_hold_days : {0, 1, 200, 201}, cash : {0, 100000000}]

\* The bodies posted to /feishu/event, with FEISHU_BOT_OPEN_ID set or not.
\* mentions holds whom the message mentions; at_tag and id_in_text say
\* whether its text contains "<at " and the open_id of the bot.
EventRequests ==
    [handler : {"event"}, challenge : BOOLEAN, event_is_dict : BOOLEAN,
     sender_type : {"user", "app"}, type : {"message", "other"},
     event_type : {"im.message.receive_v1", "other"},
     mentions : SUBSET {"bot", "other"}, at_tag : BOOLEAN,
     id_in_text : BOOLEAN, bot_open_id : BOOLEAN, chat_id : BOOLEAN]

\* not (start_date >= end_date), on the two strings.
dates_in_order(start_date, end_date) == StrLess(start_date, end_date)

\* _validate_inputs(form): TRUE when it returns the inputs, FALSE when it
\* raises ValueError.
_validate_inputs(form) ==
    /\ Len(form.symbol) = 6
    /\ strptime(form.start_date) # << >>
    /\ strptime(form.end_date) # << >>
    /\ dates_in_order(form.start_date, form.end_date)
    /\ ~(form.take_profit <= 0)
    /\ ~(form.stop_loss >= 0)
    /\ 1 <= form.max_hold_days /\ form.max_hold_days <= 200
    /\ ~(form.cash <= 0)

\* Mutant of _mentioned_bot: every message counts as a mention.
_mentioned_bot_always(payload) == TRUE

\* _mentioned_bot(payload).
_mentioned_bot(payload) ==
    IF payload.mentions = {}
    THEN IF payload.bot_open_id THEN payload.id_in_text ELSE payload.at_tag
    ELSE IF ~payload.bot_open_id THEN TRUE
    ELSE "bot" \in payload.mentions

ServerInit ==
    /\ SimOff
    /\ MetricsOff
    /\ LoadOff
    /\ RunOff
    /\ PollOff
    /\ CacheOff
    /\ s_pc = "request"
    /\ s_req \in CallbackRequests \cup EventRequests
    /\ s_dispatches = 0
    /\ s_cards = 0
    /\ s_resp = NoResponse

\* feishu_card_callback: the body is read outside the try block, the form
\* is validated and the workflow dispatched inside it.
card_callback ==
    /\ s_pc = "request" /\ s_req.handler = "card-callback"
    /\ s_pc' = "done"
    /\ IF ~s_req.json
       THEN s_resp' = [status |-> 500, ok |-> FALSE] /\ UNCHANGED s_dispatches
       ELSE IF ~_validate_inputs(s_req)
       THEN s_resp' = [status |-> 200, ok |-> FALSE] /\ UNCHANGED s_dispatches
       ELSE /\ s_dispatches' = s_dispatches + 1
            /\ \E accepted \in BOOLEAN : s_resp' = [status |-> 200, ok |-> accepted]
    /\ UNCHANGED << s_req, s_cards >>
    /\ UNCHANGED << simVars, metricsVars, loadVars, runVars, pollVars, cacheVars >>

\* feishu_event: the early returns, then the card is sent inside a try block.
feishu_event ==
    /\ s_pc = "request" /\ s_req.handler = "event"
    /\ s_pc' = "done"
    /\ IF \/ s_req.challenge
          \/ ~s_req.event_is_dict
          \/ s_req.sender_type = "app"
          \/ (s_req.type # "message" /\ s_req.event_type # "im.message.receive_v1")
          \/ ~_mentioned_bot(s_req)
          \/ ~s_req.chat_id
       THEN s_resp' = [status |-> 200, ok |-> TRUE] /\ UNCHANGED s_cards
       ELSE \E loaded \in BOOLEAN, sent \in BOOLEAN :
               /\ s_cards' = IF loaded THEN s_cards + 1 ELSE s_cards
               /\ s_resp' = [status |-> 200, ok |-> loaded /\ sent]
    /\ UNCHANGED << s_req, s_dispatches >>
    /\ UNCHANGED << simVars, metricsVars, loadVars, runVars, pollVars, cacheVars >>

ServerNext ==
    \/ card_callback
    \/ feishu_event

ServerSpec == ServerInit /\ [][ServerNext]_vars

\* ---------------------------------------------------------------- claims

\* The i-th ledger entry belongs to the i-th filled exit.
Closed == { i \in DOMAIN trades : i <= Len(exits) }

\* C1: every Trade of the ledger records the reason of the exit decision
\* that closed its position, and never the placeholder "unknown".
C1_ReasonRecorded ==
    \A i \in Closed :
        /\ trades[i].exit_reason = exits[i].reason
        /\ trades[i].exit_reason # "unknown"

\* C2: a Trade whose exit was decided on a bar that touched both the stop
\* price and the take-profit price is recorded with reason stop_loss.
C2_StopLossFirst ==
    \A i \in Closed : exits[i].both => trades[i].exit_reason = "stop_loss"

\* C3: every exit is filled on the bar that triggered it, at the stop price,
\* the take-profit price or (max hold) the close of that bar.
C3_ExitAtTrigger ==
    \A i \in DOMAIN exits :
        /\ exits[i].filled = exits[i].decided
        /\ exits[i].price * One = exits[i].trigger

\* The bar has been processed: the notifications are delivered and next()
\* has run.
BarDone == pc \in {"advance", "done"} /\ nbar >= 1

\* The last filled entry: the entry of the open position, if there is one.
LastEntry == entries[Len(entries)]

\* The entry order that next() issues on the current bar.
EntryOrder ==
    [isbuy |-> TRUE, size |-> Stake, created |-> bar.close, bar |-> nbar,
     reason |-> "None", trigger |-> 0, both |-> FALSE]

\* What holds of every entry, filled or not: a Flat machine has issued an
\* entry of Stake shares once its bar is processed; an entry that is filled
\* is filled on the bar after its decision at that bar's open, with hold_bars
\* 0 at the fill and after notify_order; the ledger does not grow while the
\* position is open.
EntryFacts ==
    /\ (BarDone /\ position.size = 0) => submitted = << EntryOrder >>
    /\ \A i \in DOMAIN entries :
          /\ entries[i].filled = entries[i].decided + 1
          /\ entries[i].price = entries[i].open
          /\ entries[i].size = Stake
          /\ entries[i].hold_bars = 0
    /\ (pc = "notify" /\ position.size > 0 /\ evals = 0 /\ orderspending = << >>)
          => hold_bars = 0
    /\ position.size > 0 => Len(trades) = LastEntry.ledger

\* C4 as stated: every entry that is issued is filled at the open of the
\* next bar, so none is refused.
C4_EntryAlwaysFilled == EntryFacts /\ rejected = 0

\* C4, amended: a Flat machine issues an entry of Stake shares on every bar;
\* an entry that the broker fills is filled at the open of the bar after the
\* decision, with hold_bars 0 and no Trade appended; an entry that the cash
\* does not cover is refused and leaves the machine Flat.
C4_EntryNextOpen ==
    /\ EntryFacts
    /\ Len(entries) + rejected <= nbar
    /\ (rejected > 0 /\ entries = << >>) => (position.size = 0 /\ cash = p.cash)

\* C4 witness: an entry has been filled and notified, next() has not yet run
\* on the fill bar.
C4_Witness ==
    /\ pc = "notify" /\ orderspending = << >> /\ tradespending = << >>
    /\ Len(entries) = 2 /\ position.size = Stake /\ evals = 0
    /\ entry_price = bar.open

\* C4 witness of the amended case: an entry was refused for lack of cash.
C4_WitnessRefused == rejected > 0 /\ BarDone /\ position.size = 0

\* C5 as stated: the exit rule is not evaluated on the entry-fill bar, and on
\* the k-th bar after it hold_bars = k at the exit check.
C5_HoldBarsAfterFill ==
    (BarDone /\ position.size > 0 /\ evals > 0) =>
        /\ nbar > LastEntry.filled
        /\ hold_bars = nbar - LastEntry.filled

\* C5, amended: the exit rule is first evaluated on the entry-fill bar itself
\* with hold_bars = 1, never 0; on the k-th bar after the entry-fill bar
\* hold_bars = k + 1 at the exit check.
C5_HoldBarsFromFill ==
    (BarDone /\ position.size > 0) =>
        /\ evals >= 1
        /\ hold_bars = evals
        /\ hold_bars = nbar - LastEntry.filled + 1

\* C5 witness: the second bar after the entry-fill bar has been evaluated.
C5_Witness ==
    BarDone /\ position.size > 0 /\ nbar = LastEntry.filled + 2 /\ hold_bars = 3

\* C6: a position that has touched neither threshold is exited with reason
\* max_hold_days exactly when hold_bars = max_hold_days: no max-hold exit is
\* decided at another count, hold_bars never exceeds max_hold_days, and at
\* hold_bars = max_hold_days the exit is decided.
C6_MaxHoldExact ==
    /\ hold_bars <= p.max_hold_days
    /\ \A i \in DOMAIN submitted :
          submitted[i].reason = "max_hold_days" =>
              hold_bars = p.max_hold_days /\ exit_reason = "max_hold_days"
    /\ \A i \in DOMAIN exits :
          exits[i].reason = "max_hold_days" => exits[i].hold_bars = p.max_hold_days
    /\ (BarDone /\ position.size > 0 /\ hold_bars = p.max_hold_days
          /\ ~TouchesStop(bar) /\ ~TouchesTake(bar)) =>
              /\ Len(submitted) = 1
              /\ submitted[1].reason = "max_hold_days"
              /\ submitted[1].bar = nbar
    /\ (BarDone /\ position.size > 0 /\ hold_bars < p.max_hold_days
          /\ ~TouchesStop(bar) /\ ~TouchesTake(bar)) => submitted = << >>

\* C6 witness: a max-hold exit decided at the largest max_hold_days tried.
C6_Witness ==
    /\ BarDone /\ p.max_hold_days = MaxHold /\ ~breached
    /\ Len(submitted) = 1 /\ submitted[1].reason = "max_hold_days"
    /\ hold_bars = MaxHold

\* C7: the position is 0 or Stake shares; a buy is issued only when no
\* position is open and no other order is pending; every exit sells the
\* whole position.
C7_OnePosition ==
    /\ position.size \in {0, Stake}
    /\ Len(submitted) <= 1
    /\ \A i \in DOMAIN submitted :
          IF submitted[i].isbuy
          THEN position.size = 0 /\ submitted[i].size = Stake
          ELSE submitted[i].size = position.size /\ position.size = Stake
    /\ \A i \in DOMAIN entries : entries[i].held = 0
    /\ \A i \in DOMAIN exits : exits[i].size = exits[i].held

\* C7 witness: a second position is open after the first was sold whole.
C7_Witness == Len(exits) = 1 /\ Len(entries) = 2 /\ position.size = Stake

\* The closed trades that wait for notify_trade.
ClosedPending == { i \in DOMAIN tradespending : tradespending[i].isclosed }

\* C8 (state part): the ledger and the closed trades still to be notified
\* are as many as the filled exits; after every bar the ledger length is the
\* number of filled exits; filled entries exceed the ledger by 0 or 1.
C8_LedgerCount ==
    /\ Len(trades) + Cardinality(ClosedPending) = Len(exits)
    /\ BarDone => Len(trades) = Len(exits)
    /\ Len(entries) - Len(trades) \in {0, 1}

\* C8 (step part): a step appends at most one Trade and changes no entry.
C8_AppendOnly ==
    \/ trades' = trades
    \/ /\ Len(trades') = Len(trades) + 1
       /\ SubSeq(trades', 1, Len(trades)) = trades
       /\ Len(exits') = Len(exits)
       /\ Len(trades') <= Len(exits)

\* C8: one Trade per round trip.
C8_OneTradePerRoundTrip == [](C8_LedgerCount) /\ [][C8_AppendOnly]_vars

\* C8 witness: two round trips are closed and recorded.
C8_Witness == Len(trades) = 2 /\ Len(exits) = 2 /\ Len(entries) = 2

\* The series has ended, it is shorter than max_hold_days and no bar touched
\* the stop or the take-profit price of the position.
ShortQuietRun == pc = "done" /\ nbar < p.max_hold_days /\ ~breached

\* The run ends with no closed Trade and one open position, no exit issued.
OneOpenNoTrade ==
    /\ trades = << >> /\ exits = << >>
    /\ position.size = Stake /\ Len(entries) = 1
    /\ submitted = << >> /\ tradespending = << >>

\* C9 as stated: every non-empty quiet series shorter than max_hold_days
\* ends with zero closed Trades and one open position.
C9_ShortRunOneOpen == ShortQuietRun => OneOpenNoTrade

\* C9, amended: the same for series of at least two bars whose entry the
\* cash covers; a series of one bar ends Flat with its entry not filled.
C9_ShortRunOneOpenFrom2 ==
    /\ (ShortQuietRun /\ nbar >= 2 /\ rejected = 0) => OneOpenNoTrade
    /\ (ShortQuietRun /\ nbar = 1) =>
          trades = << >> /\ position.size = 0 /\ entries = << >>

\* C9 witness: a quiet series of two bars has ended with max_hold_days 3.
C9_Witness ==
    ShortQuietRun /\ nbar = 2 /\ rejected = 0 /\ position.size = Stake

\* C10: for every closed Trade commission = entry notional * rate + exit
\* notional * rate, pnl = (exit - entry) * size, pnlcomm = pnl - commission;
\* and the trade entered at 100.0 whose exit is decided on the bar with low
\* 94.9 and high 103.5 (stop -0.05, take 0.03) exits at 95.0 with pnl -500.0,
\* commission 5.85 and pnlcomm -505.85.
C10_CommissionAndPnl ==
    \A i \in Closed :
        LET t == trades[i]
            x == exits[i]
        IN  /\ t.commission =
                   Commission(x.size, x.entry) + Commission(x.size, x.price)
            /\ t.pnl = (x.price - x.entry) * x.size * 100
            /\ t.pnlcomm = t.pnl - t.commission
            /\ (x.entry = 1000 /\ x.both /\ p.stop_loss = -500
                  /\ p.take_profit = 300) =>
                   /\ x.price = 950
                   /\ t.pnl = -500000
                   /\ t.commission = 5850
                   /\ t.pnlcomm = -505850

\* C11 (state part): while bar n is being processed the curve holds the
\* samples of bars 1..n-1, once it is processed those of bars 1..n, and after
\* the run as many samples as the series has bars.
C11_CurveLength ==
    /\ (pc \in {"broker", "notify", "observe"}) => Len(equity_curve) = nbar - 1
    /\ (pc \in {"advance", "done"}) => Len(equity_curve) = nbar

\* C11 (step part): a step leaves the curve alone or appends one sample to
\* it, the portfolio value of the bar, and only the observer step appends.
C11_CurveAppendOnly ==
    \/ equity_curve' = equity_curve
    \/ /\ pc = "observe"
       /\ Len(equity_curve') = Len(equity_curve) + 1
       /\ SubSeq(equity_curve', 1, Len(equity_curve)) = equity_curve
       /\ equity_curve'[nbar] = cash + position.size * bar.close * 100

\* C11: one equity sample per processed bar, append-only.
C11_OneSamplePerBar == [](C11_CurveLength) /\ [][C11_CurveAppendOnly]_vars

\* C11 witness: a run of three bars has ended with three samples, the last
\* one taken with a position open.
C11_Witness ==
    pc = "done" /\ nbar = 3 /\ Len(equity_curve) = 3 /\ position.size = Stake

\* The position fields of the strategy are in their reset state.
Cleared == entry_price = NoPrice /\ hold_bars = 0 /\ exit_reason = "None"

\* C20 (state part): once the order notifications of a bar are delivered and
\* the position is flat, so before every decision of a flat machine and
\* after every filled exit, entry_price is None, hold_bars 0, exit_reason None.
C20_ClearedWhenFlat ==
    (pc = "notify" /\ orderspending = << >> /\ position.size = 0) => Cleared

\* C20 (step part): the three fields change only in the entry-fill and
\* exit-fill steps (notify_order of a Completed order) and in the
\* exit-decision step (next() with a position open); the exit-fill clears them.
C20_ChangedOnlyBy ==
    \/ << entry_price, hold_bars, exit_reason >>' =
          << entry_price, hold_bars, exit_reason >>
    \/ /\ pc = "notify" /\ orderspending # << >>
       /\ Head(orderspending).status = "Completed"
       /\ IF Head(orderspending).isbuy
          THEN entry_price' = Head(orderspending).price /\ hold_bars' = 0
               /\ exit_reason' = exit_reason
          ELSE Cleared'
    \/ /\ pc = "notify" /\ orderspending = << >> /\ tradespending = << >>
       /\ position.size > 0
       /\ hold_bars' = hold_bars + 1
       /\ entry_price' = entry_price

\* C20: position state reset.
C20_PositionStateReset == [](C20_ClearedWhenFlat) /\ [][C20_ChangedOnlyBy]_vars

\* C20 witness: an exit has been filled and notified after a position was
\* held, and the flat machine is about to decide again.
C20_Witness ==
    /\ pc = "notify" /\ orderspending = << >> /\ tradespending = << >>
    /\ position.size = 0 /\ Len(exits) = 1 /\ exits[1].hold_bars = 2 /\ Cleared

\* A curve never falls from one sample to the next.
NonDecreasing(curve) ==
    \A i \in 1..(Len(curve) - 1) : curve[i] <= curve[i + 1]

\* C12: the max drawdown of a curve is <= 0; it is 0 exactly when the curve
\* is non-decreasing, and 0 for the empty curve.
C12_DrawdownSign ==
    m_pc = "done" =>
        /\ metrics.max_drawdown.den > 0
        /\ metrics.max_drawdown.num <= 0
        /\ (metrics.max_drawdown.num = 0) <=> NonDecreasing(m_equity)
        /\ m_equity = << >> => metrics.max_drawdown.num = 0

\* C12 witness: a curve that rises and then falls has a negative drawdown.
C12_Witness ==
    /\ m_pc = "done" /\ Len(m_equity) = 3
    /\ m_equity[1] < m_equity[2] /\ m_equity[3] < m_equity[2]
    /\ metrics.max_drawdown.num < 0

\* The trades of a ledger with a net result strictly above 0.
Wins(ledger) == { i \in DOMAIN ledger : ledger[i].pnlcomm > 0 }

\* C13: trade_count is the length of the ledger; win_rate is the number of
\* trades with net result > 0 over trade_count, a net result of 0 being no
\* win; for the empty ledger both are 0 and nothing is divided by 0.
C13_WinRate ==
    m_pc = "done" =>
        /\ metrics.trades = Len(m_trades)
        /\ metrics.win_rate.den # 0
        /\ IF m_trades = << >>
           THEN metrics.win_rate.num = 0
           ELSE /\ metrics.win_rate.num = Cardinality(Wins(m_trades))
                /\ metrics.win_rate.den = Len(m_trades)

\* C13 witness: a ledger with a win, a loss and a trade of net result 0.
C13_Witness ==
    /\ m_pc = "done" /\ Len(m_trades) = 3
    /\ { m_trades[i].pnlcomm : i \in 1..3 } = {-1, 0, 1}
    /\ metrics.win_rate = Frac(1, 3)

\* C13 witness of the empty ledger.
C13_WitnessEmpty ==
    m_pc = "done" /\ m_trades = << >> /\ metrics.win_rate = Frac(0, 1)

\* C16: the loader never yields an empty series: when it is done it has
\* either raised or returned a frame with rows, and datasource_used is the
\* provider whose call, the last one made, answered with rows.
C16_NeverEmpty ==
    /\ l_out.df \in {"None", "df"}
    /\ l_pc = "done" => l_out.status \in {"returned", "raised"}
    /\ l_out.status = "returned" =>
          /\ l_out.df = "df"
          /\ l_calls # << >>
          /\ l_calls[Len(l_calls)] = [provider |-> l_out.used, resp |-> "rows"]
    /\ l_out.status = "raised" => l_out.df = "None"

\* C16 witness: akshare supplied the rows after tushare answered empty.
C16_Witness ==
    /\ l_pc = "done" /\ l_out.status = "returned" /\ l_out.used = "akshare"
    /\ Len(l_calls) = 2 /\ l_calls[1].resp = "empty"

\* The outcome of a provider's response as the contract names it.
Outcome(resp) ==
    CASE resp = "rows" -> "Success"
      [] resp \in {"empty", "None"} -> "Empty"
      [] resp \in {"error", "badrows"} -> "Failed"

Called(provider) == \E i \in DOMAIN l_calls : l_calls[i].provider = provider
OutcomeOf(provider) ==
    LET i == CHOOSE j \in DOMAIN l_calls : l_calls[j].provider = provider
    IN  Outcome(l_calls[i].resp)
Tried(provider) == Called(provider) /\ OutcomeOf(provider) # "Success"

\* The outcome the contract gives for the arguments and provider outcomes.
Expected ==
    LET ds == l_in.datasource
        ts == ds \in {"auto", "tushare"} /\ l_in.token
        ak == ds = "akshare" \/ (ds = "auto" /\ ~(ts /\ OutcomeOf("tushare") = "Success"))
    IN  IF ~l_in.symbol_ok \/ ~l_in.dates_ok \/ ds = "other"
            \/ (ds = "tushare" /\ ~l_in.token)
        THEN << "raised", "None", "ValueError" >>
        ELSE IF ts /\ OutcomeOf("tushare") = "Success"
        THEN << "returned", "tushare", "None" >>
        ELSE IF ak /\ OutcomeOf("akshare") = "Success"
        THEN << "returned", "akshare", "None" >>
        ELSE IF (ak /\ OutcomeOf("akshare") = "Failed")
                \/ (ts /\ OutcomeOf("tushare") = "Failed")
        THEN << "raised", "None", "RuntimeError: last_err" >>
        ELSE << "raised", "None", "RuntimeError: empty" >>

\* C18: the order of the provider calls. tushare is called at most once,
\* first, only with a token and only for auto or tushare; akshare is called
\* at most once, only for auto or akshare, and for auto only after tushare
\* was skipped or did not succeed; tushare without a token is an error; the
\* final outcome is the one the provider outcomes determine.
C18_FallbackOrder ==
    /\ Len(l_calls) <= 2
    /\ \A i, j \in DOMAIN l_calls :
          (l_calls[i].provider = l_calls[j].provider => i = j)
          /\ (l_calls[i].provider = "tushare" /\ l_calls[j].provider = "akshare" => i < j)
    /\ Called("tushare") => l_in.token /\ l_in.datasource \in {"auto", "tushare"}
    /\ Called("akshare") =>
          /\ l_in.datasource \in {"auto", "akshare"}
          /\ l_in.datasource = "auto" /\ l_in.token => Tried("tushare")
    /\ l_in.datasource = "akshare" => ~Called("tushare")
    /\ l_in.datasource = "tushare" => ~Called("akshare")
    /\ l_pc = "done" =>
          /\ << l_out.status, l_out.used, l_out.error >> = Expected
          /\ (l_in.datasource = "tushare" /\ ~l_in.token /\ l_in.symbol_ok /\ l_in.dates_ok)
                => l_out = raised("ValueError") /\ l_calls = << >>
          /\ (l_in.datasource = "auto" /\ l_in.symbol_ok /\ l_in.dates_ok)
                => /\ l_in.token => Called("tushare")
                   /\ ~(l_in.token /\ OutcomeOf("tushare") = "Success") => Called("akshare")

\* C18 witness: auto with a token, tushare failed, akshare then succeeded.
C18_Witness ==
    /\ l_pc = "done" /\ l_in.datasource = "auto" /\ l_in.token
    /\ Len(l_calls) = 2
    /\ l_calls[1] = [provider |-> "tushare", resp |-> "error"]
    /\ l_calls[2] = [provider |-> "akshare", resp |-> "rows"]
    /\ l_out = returned("df", "akshare")

\* C18 witness of a forced tushare: it answered empty and nothing else ran.
C18_WitnessForced ==
    /\ l_pc = "done" /\ l_in.datasource = "tushare"
    /\ Len(l_calls) = 1 /\ l_calls[1].resp = "empty"
    /\ l_out = raised("RuntimeError: empty")

\* The ranges of the parameters, as the contract states them.
InRange(in) ==
    /\ in.take_profit > 0 /\ in.stop_loss < 0
    /\ in.max_hold_days \in 1..200 /\ in.cash > 0

\* C14: on every entry point, no bar is simulated and no run is dispatched
\* for a parameter set that is out of range.
C14_ValidatedBeforeRun ==
    (r_simulated \/ r_dispatched) => InRange(r_in)

Has(seq, x) == \E i \in DOMAIN seq : seq[i] = x

\* C15: a run of the CLI or of the poller that ended after an exception has
\* handed a failure text to send_feishu_text.
C15_FailureMessage ==
    (r_pc = "done" /\ r_entry \in {"cli", "poller"} /\ r_failed)
        => Has(r_sent, "failure")

\* C17 as stated: a run in which an exception was raised has written no
\* report and has not marked its record completed.
C17_NoReportOnFailure ==
    (r_pc = "done" /\ r_failed)
        => r_report = "none" /\ ~Has(r_marks, "completed")

\* C17, first part: a report is on disk, and a record was marked completed,
\* only when run_backtest returned.
C17_ReportNeedsResult ==
    /\ r_report = "written" => r_core = "returned" /\ r_entry = "cli"
    /\ Has(r_marks, "completed") => r_core = "returned" /\ r_entry = "poller"
    /\ (r_pc = "done" /\ r_report = "written" /\ r_failed)
          => Has(r_sent, "failure") /\ r_exit = "error"
    /\ (r_pc = "done" /\ Has(r_marks, "completed") /\ r_failed
          /\ r_marks[Len(r_marks)] = "completed") => r_exit = "error"

\* C17, second part: the report and the completed mark are written by the
\* step after run_backtest returned, and nothing removes them.
C17_ReportWrittenOnce ==
    /\ r_report # "none" => r_report' = r_report
    /\ r_report' # r_report => r_pc = "report" /\ r_core = "returned"
    /\ r_marks' # r_marks =>
          /\ Len(r_marks') = Len(r_marks) + 1
          /\ SubSeq(r_marks', 1, Len(r_marks)) = r_marks
          /\ r_marks'[Len(r_marks')] = "completed"
                => r_pc = "mark_done" /\ r_core = "returned"

\* C17 amended: no report and no completed mark unless run_backtest
\* returned; a failure after that leaves them in place.
C17_ReportOnlyAfterResult ==
    [](C17_ReportNeedsResult) /\ [][C17_ReportWrittenOnce]_vars

\* C17 witness: the CLI wrote its report, the summary could not be
\* delivered, and the run ended in error with the report on disk.
C17_Witness ==
    /\ r_pc = "done" /\ r_entry = "cli" /\ r_exit = "error"
    /\ r_report = "written" /\ r_sent = << "summary", "failure" >>

\* C17 witness: data was unavailable, nothing was written or marked.
C17_WitnessNoData ==
    /\ r_pc = "done" /\ r_core = "raised" /\ ~r_simulated /\ r_in.dates_ok
    /\ r_report = "none" /\ r_marks = << "running", "failed" >>

\* next() is about to evaluate the exit rule of an open position.
AtEvaluation ==
    /\ pc = "notify" /\ orderspending = << >> /\ tradespending = << >>
    /\ order = "None" /\ position.size # 0

\* C24, state part: when the exit rule is about to be evaluated, entry_price
\* is set, to the price at which the broker filled the entry of the position.
C24_EntryPriceSet ==
    AtEvaluation =>
        /\ entry_price # NoPrice
        /\ entries # << >>
        /\ entry_price = LastEntry.price
        /\ entry_price = position.price

\* C24, step part: the evaluation leaves entry_price as it was, that is, the
\* fallback to the bar's close is not taken.
C24_NoFallback ==
    AtEvaluation => entry_price' = entry_price

\* C24: entry_price is the fill price of the entry whenever the exit rule is
\* evaluated, and the defensive fallback is never taken.
C24_FallbackNeverTaken == [](C24_EntryPriceSet) /\ [][C24_NoFallback]_vars

\* C24 witness: the rule was evaluated twice on a position filled at an open
\* that differs from the close of the bar being evaluated.
C24_Witness ==
    /\ pc = "observe" /\ position.size # 0 /\ evals >= 2
    /\ entry_price = LastEntry.price /\ entry_price # bar.close

\* C21: a record is backtested by at most one instance of the poller.
C21_ExclusiveClaim ==
    (poll # << >>) => \A r \in Records : Cardinality(ran_by[r]) <= 1

\* C22: a step of the poller never rewrites a record that is completed as
\* failed, and a record is running when its backtest starts.
C22_StatusStep ==
    (poll # << >>) =>
        \A r \in Records :
            /\ table[r] = "completed" => table'[r] # "failed"
            /\ ran_by'[r] # ran_by[r] => table[r] = "running"
C22_StatusMonotone == [][C22_StatusStep]_vars

\* C23: when an instance of main has returned or raised, no record that it
\* set to running is still running, and it has gone through all the records
\* it fetched.
C23_NoneLeftRunning ==
    (poll # << >>) =>
        \A i \in Pollers :
            poll[i].pc = "done" =>
                /\ \A r \in poll[i].claimed : table[r] # "running"
                /\ poll[i].idx = Len(poll[i].fetched)

\* The last call returned the token that was in the cache.
ReturnedCached ==
    last_call.made /\ ~last_call.raised /\ ~last_call.requested

\* C25: the last call returned the cached token only if that token was
\* non-empty with more than 60 seconds left, and then left the cache as it
\* was; a call with credentials that could not use the cache requested a new
\* token; a request that succeeded put the new token in the cache with
\* expire_at = now + expire and returned it; a request that failed left the
\* cache unchanged.
C25_TokenCacheExpiry ==
    last_call.made =>
        LET c == last_call
            fresh == c.before.token # 0 /\ c.before.expire_at > c.at + 60
        IN  /\ ReturnedCached =>
                  /\ fresh
                  /\ c.result = c.before.token
                  /\ _TOKEN_CACHE = c.before
            /\ (c.creds /\ ~fresh) => c.requested
            /\ (c.requested /\ ~c.raised) =>
                  /\ c.resp \in {"ok", "ok_no_expire"}
                  /\ c.result # 0 /\ c.result # c.before.token
                  /\ _TOKEN_CACHE = [token |-> c.result,
                                     expire_at |-> c.at + c.expire]
            /\ (c.requested /\ c.raised) =>
                  /\ c.resp \in {"http_error", "code_error"}
                  /\ _TOKEN_CACHE = c.before
            /\ ~c.creds => ~c.requested /\ c.raised /\ _TOKEN_CACHE = c.before

\* C25 witness: a token with exactly 60 seconds left was not used, and the
\* request for a new one failed, leaving it in the cache.
C25_Witness ==
    /\ last_call.made /\ last_call.requested /\ last_call.raised
    /\ last_call.before.token # 0
    /\ last_call.before.expire_at = last_call.at + 60
    /\ _TOKEN_CACHE = last_call.before

\* C25 witness: a token with 90 seconds left was returned from the cache.
C25_WitnessCached ==
    /\ ReturnedCached /\ last_call.before.expire_at = last_call.at + 90
    /\ last_call.result = _TOKEN_CACHE.token

\* d1 is an earlier day than d2, both as << year, month, day >>.
DateLess(d1, d2) ==
    \/ d1[1] < d2[1]
    \/ d1[1] = d2[1] /\ d1[2] < d2[2]
    \/ d1[1] = d2[1] /\ d1[2] = d2[2] /\ d1[3] < d2[3]

\* The form is the one the contract accepts.
FormValid(form) ==
    /\ Len(form.symbol) = 6
    /\ strptime(form.start_date) # << >> /\ strptime(form.end_date) # << >>
    /\ DateLess(strptime(form.start_date), strptime(form.end_date))
    /\ form.take_profit > 0 /\ form.stop_loss < 0
    /\ form.max_hold_days \in 1..200 /\ form.cash > 0

\* C26: the card callback dispatches at most once and only for a valid form,
\* and always answers, with ok false when nothing was dispatched.
C26_CallbackDispatch ==
    (s_req.handler = "card-callback") =>
        /\ s_dispatches <= 1
        /\ s_dispatches = 1 => FormValid(s_req)
        /\ s_pc = "done" =>
              /\ s_resp.status = 200
              /\ s_dispatches = 0 => ~s_resp.ok

\* The event is one for which no card may be sent.
NoCardEvent(e) ==
    \/ e.challenge
    \/ ~e.event_is_dict
    \/ e.sender_type = "app"
    \/ (e.type # "message" /\ e.event_type # "im.message.receive_v1")
    \/ "bot" \notin e.mentions
    \/ ~e.chat_id

\* C27 as stated: no card for an event whose message does not mention the
\* bot (or that is a challenge, from an app, no message, without chat_id),
\* and at most one card for any event.
C27_NoCardUnlessMentioned ==
    (s_req.handler = "event") =>
        /\ s_cards <= 1
        /\ NoCardEvent(s_req) => s_cards = 0

\* What _mentioned_bot takes for a mention of the bot: with
\* FEISHU_BOT_OPEN_ID set, a mention of the bot or, when nobody is
\* mentioned, the id in the text; without it, any mention or, when nobody
\* is mentioned, "<at " in the text.
TakenForMention(e) ==
    IF e.bot_open_id
    THEN "bot" \in e.mentions \/ (e.mentions = {} /\ e.id_in_text)
    ELSE e.mentions # {} \/ e.at_tag

\* C27 amended: no card for a challenge, a non-dict event, a sender of type
\* app, a non-message event, a message not taken for a mention of the bot or
\* one without chat_id; at most one card for any event.
C27_NoCardUnlessTaken ==
    (s_req.handler = "event") =>
        /\ s_cards <= 1
        /\ \/ s_req.challenge
           \/ ~s_req.event_is_dict
           \/ s_req.sender_type = "app"
           \/ (s_req.type # "message" /\ s_req.event_type # "im.message.receive_v1")
           \/ ~TakenForMention(s_req)
           \/ ~s_req.chat_id
           => s_cards = 0

\* C27 witness: a user mentions the bot in a chat and one card is sent.
C27_Witness ==
    /\ s_pc = "done" /\ s_req.handler = "event" /\ s_cards = 1
    /\ s_req.mentions = {"bot"} /\ s_req.bot_open_id
    /\ s_req.sender_type = "user"

\* C27 witness: a message that mentions somebody else gets no card when the
\* open_id of the bot is configured.
C27_WitnessOther ==
    /\ s_pc = "done" /\ s_req.handler = "event" /\ s_cards = 0
    /\ s_req.mentions = {"other"} /\ s_req.bot_open_id
    /\ ~s_req.challenge /\ s_req.event_is_dict /\ s_req.sender_type = "user"
    /\ s_req.type = "message" /\ s_req.chat_id

====
